---- MODULE Spec2Model ----
(***************************************************************************)
(* AudioVisualGenerator (end2you/data_generator/audiovisual_generator.py): *)
(* _get_samples reads a label table, opens the media clip, derives the     *)
(* per-segment sample windows from the first label interval, reads and     *)
(* truncates the visual and audio range of every label interval, and       *)
(* stacks the per-segment blocks; serialize_samples writes the result.     *)
(*                                                                         *)
(* Abstractions.  Time is exact decimal arithmetic in ticks of 10^-7 s     *)
(* (the float32 cast of line 56 is not modelled).  A visual frame is an    *)
(* image of one fill value, so a block is its shape plus one value per     *)
(* frame.  An audio sample is its tuple of channel values.                 *)
(***************************************************************************)
EXTENDS Integers, Sequences, FiniteSets, TLC

\* ------------------------------------------------------------------ bounds
MaxRows == 4

\* ------------------------------------------------------- program constants
Decimals == 6
Channels == 3

TicksPerSecond == 10^7
Scale == 10^Decimals

\* Label intervals the label files use: 0.3333333 s, 0.5 s, 1 s.
Durations == {3333333, 5000000, 10000000}
FpsSet == {3, 4}
SrSet == {6}
ClipFpsSet == {3, 4}
ClipSrSet == {4, 8}
FrameSize == <<2, 3>>
resize == <<4, 4>>

VARIABLES
    file_data,                 \* the label table read_file returns, rows <<t, v1, v2>>
    attrs_name,                \* the attribute names read_file returns
    fps, sr,              \* self.fps, self.sr
    clipFps, clipSr,      \* native rates of the media file behind the clip
    pc,                   \* position in serialize_samples / _get_samples
    error,                \* the exception that left serialize_samples, or "none"
    timestamps, labels,   \* locals of _get_samples
    clipOpen,             \* VideoFileClip(data_file) has been constructed
    seq_num, visual_num_samples, audio_num_samples,
    visual_frames, audio_frames,
    i,                    \* loop index of line 69
    visual_frame,         \* local visual_frame of the current iteration
    failed,               \* segments (0-based) whose detector call raised
    result,               \* what _get_samples returned, or NoResult
    writer,               \* the h5py file: datasets and attributes
    log                   \* calls made on the clip and the detector, in order

vars == <<file_data, attrs_name, fps, sr, clipFps, clipSr, pc, error, timestamps, labels,
          clipOpen, seq_num, visual_num_samples, audio_num_samples,
          visual_frames, audio_frames, i, visual_frame, failed, result,
          writer, log>>

None == "None"
\* result before _get_samples has returned
NoResult == [returned |-> FALSE]

Min(a, b) == IF a <= b THEN a ELSE b
Max(a, b) == IF a >= b THEN a ELSE b

\* ------------------------------------------------------------ pure helpers

\* s[:n] of Python: the leading n elements, never more than there are; a
\* negative n drops the trailing -n elements.
PySliceToAll(s, n) == s
PySliceTo(s, n) ==
    IF n >= 0 THEN SubSeq(s, 1, Min(n, Len(s)))
    ELSE SubSeq(s, 1, Max(Len(s) + n, 0))

\* s[1:] of Python.
PySliceFrom1(s) == SubSeq(s, 2, Len(s))

\* file_data[:, 0]
Column0(table) == [k \in 1..Len(table) |-> table[k][1]]

\* file_data[:-1, 1:]
LabelsOf(table) ==
    LET kept == PySliceTo(table, -1)
    IN  [k \in 1..Len(kept) |-> PySliceFrom1(kept[k])]

\* round-half-to-even of num/den, den > 0, num >= 0 (np.around)
RoundHalfEven(num, den) ==
    LET q == num \div den
        r == num % den
    IN  IF 2 * r < den THEN q
        ELSE IF 2 * r > den THEN q + 1
        ELSE IF q % 2 = 0 THEN q ELSE q + 1

\* int(np.around(rate * dt, decimals=6)) for dt >= 0 in ticks.  The whole
\* seconds of dt contribute rate each, exactly; the fraction is rounded to
\* Decimals places and int() drops what is left after the decimal point.
NumSamplesNoAround(rate, dt) ==
    rate * (dt \div TicksPerSecond)
      + (rate * (dt % TicksPerSecond)) \div TicksPerSecond
NumSamples(rate, dt) ==
    LET whole == dt \div TicksPerSecond
        frac == dt % TicksPerSecond
        micro == RoundHalfEven(rate * frac, TicksPerSecond \div Scale)
    IN  rate * whole + micro \div Scale

RECURSIVE SeqSum(_)
SeqSum(s) == IF s = <<>> THEN 0 ELSE Head(s) + SeqSum(Tail(s))

\* audio_frame.mean(1): the mean across the channel axis, per sample
MeanAxis1(block) ==
    [k \in 1..Len(block) |-> SeqSum(block[k]) \div Len(block[k])]

\* visual_frame.transpose(0, 3, 1, 2): (T, H, W, C) -> (T, C, H, W)
Transpose0312(b) ==
    [shape |-> <<b.shape[1], b.shape[4], b.shape[2], b.shape[3]>>,
     data |-> b.data]

\* np.zeros((1, resize[0], resize[0], 3))
ZerosBlockPadded ==
    [shape |-> <<visual_num_samples, resize[1], resize[1], Channels>>,
     data |-> [k \in 1..visual_num_samples |-> 0]]
ZerosBlock ==
    [shape |-> <<1, resize[1], resize[1], Channels>>, data |-> <<0>>]

\* np.array(list_of_blocks) succeeds only for blocks of one shape
SameShape(blocks) ==
    \A a, b \in 1..Len(blocks) : blocks[a].shape = blocks[b].shape
SameLength(blocks) ==
    \A a, b \in 1..Len(blocks) : Len(blocks[a]) = Len(blocks[b])

\* ------------------------------------------------------- the collaborators

\* Number of frames a subclip of `dur` ticks yields at `rate`: one per
\* 1/rate step from the start of the range, i.e. ceil(rate * dur).  The clip
\* runs at the native rates of the file (the set_fps results of lines 61-62
\* are dropped), so a range may hold fewer or more frames than the window.
RangeCount(rate, dur) ==
    (rate * dur + TicksPerSecond - 1) \div TicksPerSecond

\* clip.subclip(start, end).iter_frames() of segment k (0-based)
VisualRange(k, start, end) ==
    LET n == RangeCount(clipFps, end - start)
    IN  [shape |-> <<n, FrameSize[1], FrameSize[2], Channels>>,
         data |-> [j \in 1..n |-> 10 * (k + 1) + j]]

\* clip.audio.subclip(start, end).iter_frames() of segment k: stereo samples
AudioRange(k, start, end) ==
    LET n == RangeCount(clipSr, end - start)
    IN  [j \in 1..n |-> <<20 * (k + 1) + j, 20 * (k + 1) + j + 2>>]

\* detector.extract_and_resize_face(frames): one resized face per frame
ExtractAndResizeFace(b) ==
    [shape |-> <<b.shape[1], resize[1], resize[2], Channels>>, data |-> b.data]

\* visual_frame[:visual_num_samples] on a block
TruncateBlockNone(b, n) == b
TruncateBlock(b, n) ==
    LET d == PySliceTo(b.data, n)
    IN  [shape |-> <<Len(d), b.shape[2], b.shape[3], b.shape[4]>>, data |-> d]

EmptyWriter == [datasets |-> <<>>, attrs |-> <<>>]

\* ---------------------------------------------------------------- inputs

\* Label tables with strictly increasing timestamps starting at 0
RECURSIVE Tables(_)
Tables(n) ==
    IF n = 0 THEN {<<>>}
    ELSE IF n = 1 THEN {<< <<0, 1, 11>> >>}
    ELSE {Append(t, <<t[Len(t)][1] + d, n, 10 + n>>) :
            t \in Tables(n - 1), d \in Durations}

AttrNames == <<"time", "arousal", "valence">>

Init ==
    /\ file_data \in UNION {Tables(n) : n \in 0..MaxRows}
    /\ attrs_name = AttrNames
    /\ fps \in FpsSet
    /\ sr \in SrSet
    /\ clipFps \in ClipFpsSet
    /\ clipSr \in ClipSrSet
    /\ pc = "start"
    /\ error = "none"
    /\ timestamps = <<>>
    /\ labels = <<>>
    /\ clipOpen = FALSE
    /\ seq_num = None
    /\ visual_num_samples = None
    /\ audio_num_samples = None
    /\ visual_frames = <<>>
    /\ audio_frames = <<>>
    /\ i = 0
    /\ visual_frame = None
    /\ failed = {}
    /\ result = NoResult
    /\ writer = EmptyWriter
    /\ log = <<>>

\* ---------------------------------------------------------------- actions

Raise(e) == pc' = "raised" /\ error' = e

\* one call on the clip or the detector for segment k, and whether it returned
LogEntry(op, k, ok) ==
    [op |-> op, seg |-> k, start |-> timestamps[k + 1], end |-> timestamps[k + 2],
     ok |-> ok]

\* np.array(visual_frames), np.array(audio_frames)
StackVisual(blocks) ==
    IF blocks = <<>> THEN [shape |-> <<0>>, data |-> <<>>]
    ELSE [shape |-> <<Len(blocks)>> \o blocks[1].shape,
          data |-> [k \in 1..Len(blocks) |-> blocks[k].data]]
StackAudio(blocks) ==
    IF blocks = <<>> THEN [shape |-> <<0>>, data |-> <<>>]
    ELSE [shape |-> <<Len(blocks), Len(blocks[1])>>, data |-> blocks]

\* lines 55-58: read_file, timestamps = file_data[:,0], labels = file_data[:-1,1:]
ReadLabels ==
    /\ pc = "start"
    /\ Len(file_data) >= 1
    /\ timestamps' = Column0(file_data)
    /\ labels' = LabelsOf(file_data)
    /\ pc' = "open"
    /\ UNCHANGED <<file_data, attrs_name, fps, sr, clipFps, clipSr, error, clipOpen, seq_num,
                   visual_num_samples, audio_num_samples, visual_frames,
                   audio_frames, i, visual_frame, failed, result, writer, log>>

\* line 57 on an empty table: np.array([]) has one axis, file_data[:,0] raises
ReadLabelsEmpty ==
    /\ pc = "start"
    /\ Len(file_data) = 0
    /\ Raise("IndexError")
    /\ UNCHANGED <<file_data, attrs_name, fps, sr, clipFps, clipSr, timestamps, labels,
                   clipOpen, seq_num, visual_num_samples, audio_num_samples,
                   visual_frames, audio_frames, i, visual_frame, failed, result,
                   writer, log>>

\* lines 60-62: clip = VideoFileClip(str(data_file)); the set_fps calls return
\* new clips that are dropped, so the clip keeps its native rates
OpenClip ==
    /\ pc = "open"
    /\ clipOpen' = TRUE
    /\ pc' = "grid"
    /\ UNCHANGED <<file_data, attrs_name, fps, sr, clipFps, clipSr, error, timestamps, labels,
                   seq_num, visual_num_samples, audio_num_samples, visual_frames,
                   audio_frames, i, visual_frame, failed, result, writer, log>>

\* line 60 when the media file cannot be opened
OpenClipFail ==
    /\ pc = "open"
    /\ Raise("MediaOpenError")
    /\ UNCHANGED <<file_data, attrs_name, fps, sr, clipFps, clipSr, timestamps, labels,
                   clipOpen, seq_num, visual_num_samples, audio_num_samples,
                   visual_frames, audio_frames, i, visual_frame, failed, result,
                   writer, log>>

\* seq_num = labels.shape[0] - 1
SeqNum == Len(labels) - 1

\* lines 64-68 with at least two timestamps
ComputeGrid ==
    /\ pc = "grid"
    /\ Len(timestamps) >= 2
    /\ seq_num' = SeqNum
    /\ visual_num_samples' = NumSamples(fps, timestamps[2] - timestamps[1])
    /\ audio_num_samples' = NumSamples(sr, timestamps[2] - timestamps[1])
    /\ visual_frames' = <<>>
    /\ audio_frames' = <<>>
    /\ i' = 0
    /\ pc' = "loop"
    /\ UNCHANGED <<file_data, attrs_name, fps, sr, clipFps, clipSr, error, timestamps, labels,
                   clipOpen, visual_frame, failed, result, writer, log>>

\* a grid computation that takes a missing interval as an empty one
ComputeGridDefaultsToZero ==
    /\ pc = "grid"
    /\ Len(timestamps) < 2
    /\ seq_num' = SeqNum
    /\ visual_num_samples' = 0
    /\ audio_num_samples' = 0
    /\ visual_frames' = <<>>
    /\ audio_frames' = <<>>
    /\ i' = 0
    /\ pc' = "loop"
    /\ UNCHANGED <<file_data, attrs_name, fps, sr, clipFps, clipSr, error, timestamps, labels,
                   clipOpen, visual_frame, failed, result, writer, log>>

\* lines 64-65 with one timestamp: timestamps[1] raises IndexError
ComputeGridFail ==
    /\ pc = "grid"
    /\ Len(timestamps) < 2
    /\ seq_num' = SeqNum
    /\ Raise("IndexError")
    /\ UNCHANGED <<file_data, attrs_name, fps, sr, clipFps, clipSr, timestamps, labels,
                   clipOpen, visual_num_samples, audio_num_samples, visual_frames,
                   audio_frames, i, visual_frame, failed, result, writer, log>>

\* lines 69-74: the frames of [timestamps[i], timestamps[i+1]), truncated
ReadVisual ==
    /\ pc = "loop"
    /\ i < Len(timestamps) - 1
    /\ visual_frame' = TruncateBlock(
           VisualRange(i, timestamps[i + 1], timestamps[i + 2]), visual_num_samples)
    /\ log' = Append(log, LogEntry("visual", i, TRUE))
    /\ pc' = "detect"
    /\ UNCHANGED <<file_data, attrs_name, fps, sr, clipFps, clipSr, error, timestamps, labels,
                   clipOpen, seq_num, visual_num_samples, audio_num_samples,
                   visual_frames, audio_frames, i, failed, result, writer>>

\* line 73 when the clip cannot produce the range: nothing catches it
ReadVisualFail ==
    /\ pc = "loop"
    /\ i < Len(timestamps) - 1
    /\ log' = Append(log, LogEntry("visual", i, FALSE))
    /\ Raise("MediaReadError")
    /\ UNCHANGED <<file_data, attrs_name, fps, sr, clipFps, clipSr, timestamps, labels,
                   clipOpen, seq_num, visual_num_samples, audio_num_samples,
                   visual_frames, audio_frames, i, visual_frame, failed, result,
                   writer>>

\* lines 76-78: the detector returns (self.detector is always set: lines 30-31
\* install a FaceExtractor when none is given)
Detect ==
    /\ pc = "detect"
    /\ visual_frame' = ExtractAndResizeFace(visual_frame)
    /\ log' = Append(log, LogEntry("detect", i, TRUE))
    /\ pc' = "transpose"
    /\ UNCHANGED <<file_data, attrs_name, fps, sr, clipFps, clipSr, error, timestamps, labels,
                   clipOpen, seq_num, visual_num_samples, audio_num_samples,
                   visual_frames, audio_frames, i, failed, result, writer>>

\* lines 77-81: the detector raises, the bare except substitutes the zeros
DetectFail ==
    /\ pc = "detect"
    /\ visual_frame' = ZerosBlock
    /\ failed' = failed \cup {i}
    /\ log' = Append(log, LogEntry("detect", i, FALSE))
    /\ pc' = "transpose"
    /\ UNCHANGED <<file_data, attrs_name, fps, sr, clipFps, clipSr, error, timestamps, labels,
                   clipOpen, seq_num, visual_num_samples, audio_num_samples,
                   visual_frames, audio_frames, i, result, writer>>

\* lines 83-84
TransposeAppend ==
    /\ pc = "transpose"
    /\ visual_frames' = Append(visual_frames, Transpose0312(visual_frame))
    /\ pc' = "audio"
    /\ UNCHANGED <<file_data, attrs_name, fps, sr, clipFps, clipSr, error, timestamps, labels,
                   clipOpen, seq_num, visual_num_samples, audio_num_samples,
                   audio_frames, i, visual_frame, failed, result, writer, log>>

\* a loop that steps over every other segment
ReadAudioSkipsNext ==
    /\ pc = "audio"
    /\ audio_frames' = Append(audio_frames,
           PySliceTo(MeanAxis1(AudioRange(i, timestamps[i + 1], timestamps[i + 2])),
                     audio_num_samples))
    /\ log' = Append(log, LogEntry("audio", i, TRUE))
    /\ i' = i + 2
    /\ pc' = "loop"
    /\ UNCHANGED <<file_data, attrs_name, fps, sr, clipFps, clipSr, error, timestamps, labels,
                   clipOpen, seq_num, visual_num_samples, audio_num_samples,
                   visual_frames, visual_frame, failed, result, writer>>

\* lines 86-89, then the next iteration of line 69
ReadAudio ==
    /\ pc = "audio"
    /\ audio_frames' = Append(audio_frames,
           PySliceTo(MeanAxis1(AudioRange(i, timestamps[i + 1], timestamps[i + 2])),
                     audio_num_samples))
    /\ log' = Append(log, LogEntry("audio", i, TRUE))
    /\ i' = i + 1
    /\ pc' = "loop"
    /\ UNCHANGED <<file_data, attrs_name, fps, sr, clipFps, clipSr, error, timestamps, labels,
                   clipOpen, seq_num, visual_num_samples, audio_num_samples,
                   visual_frames, visual_frame, failed, result, writer>>

\* a range read whose failure is swallowed: an empty block, next segment
ReadAudioFailSwallowed ==
    /\ pc = "audio"
    /\ audio_frames' = Append(audio_frames, <<>>)
    /\ log' = Append(log, LogEntry("audio", i, FALSE))
    /\ i' = i + 1
    /\ pc' = "loop"
    /\ UNCHANGED <<file_data, attrs_name, fps, sr, clipFps, clipSr, error, timestamps, labels,
                   clipOpen, seq_num, visual_num_samples, audio_num_samples,
                   visual_frames, visual_frame, failed, result, writer>>

\* line 86 when the clip cannot produce the range: nothing catches it
ReadAudioFail ==
    /\ pc = "audio"
    /\ log' = Append(log, LogEntry("audio", i, FALSE))
    /\ Raise("MediaReadError")
    /\ UNCHANGED <<file_data, attrs_name, fps, sr, clipFps, clipSr, timestamps, labels,
                   clipOpen, seq_num, visual_num_samples, audio_num_samples,
                   visual_frames, audio_frames, i, visual_frame, failed, result,
                   writer>>

\* np.array(...).astype(np.float32) of lines 91-92 needs blocks of one shape
StackableAudioOnly == SameLength(audio_frames)
Stackable == SameShape(visual_frames) /\ SameLength(audio_frames)

\* lines 91-97 after the last segment
Stack ==
    /\ pc = "loop"
    /\ i >= Len(timestamps) - 1
    /\ Stackable
    /\ result' = [audio |-> StackAudio(audio_frames),
                  visual |-> StackVisual(visual_frames),
                  labels |-> labels,
                  seq_num |-> seq_num,
                  num_samples |-> <<audio_num_samples, visual_num_samples>>,
                  attrs_name |-> attrs_name]
    /\ pc' = "returned"
    /\ UNCHANGED <<file_data, attrs_name, fps, sr, clipFps, clipSr, error, timestamps, labels,
                   clipOpen, seq_num, visual_num_samples, audio_num_samples,
                   visual_frames, audio_frames, i, visual_frame, failed, writer, log>>

\* a shape error that is raised only after the audio dataset was written
StackFailAfterAudioWritten ==
    /\ pc = "loop"
    /\ i >= Len(timestamps) - 1
    /\ ~Stackable
    /\ writer' = [writer EXCEPT !.datasets = ("audio" :> audio_frames)]
    /\ Raise("ValueError")
    /\ UNCHANGED <<file_data, attrs_name, fps, sr, clipFps, clipSr, timestamps, labels,
                   clipOpen, seq_num, visual_num_samples, audio_num_samples,
                   visual_frames, audio_frames, i, visual_frame, failed, result,
                   log>>

\* lines 91-92 on blocks of different shapes: ValueError
StackFail ==
    /\ pc = "loop"
    /\ i >= Len(timestamps) - 1
    /\ ~Stackable
    /\ Raise("ValueError")
    /\ UNCHANGED <<file_data, attrs_name, fps, sr, clipFps, clipSr, timestamps, labels,
                   clipOpen, seq_num, visual_num_samples, audio_num_samples,
                   visual_frames, audio_frames, i, visual_frame, failed, result,
                   writer, log>>

\* lines 108-116
CreateDatasets ==
    /\ pc = "returned"
    /\ writer' = [writer EXCEPT !.datasets =
                     ("audio" :> result.audio) @@ ("visual" :> result.visual)
                       @@ ("labels" :> result.labels)]
    /\ pc' = "attrs_name"
    /\ UNCHANGED <<file_data, attrs_name, fps, sr, clipFps, clipSr, error, timestamps, labels,
                   clipOpen, seq_num, visual_num_samples, audio_num_samples,
                   visual_frames, audio_frames, i, visual_frame, failed, result, log>>

\* lines 119-123
SaveAttrs ==
    /\ pc = "attrs_name"
    /\ writer' = [writer EXCEPT !.attrs =
                     ("data_file" :> "data_file") @@ ("label_file" :> "label_file")
                       @@ ("seq_num" :> result.seq_num)
                       @@ ("num_samples" :> result.num_samples)
                       @@ ("label_names" :> PySliceFrom1(result.attrs_name))]
    /\ pc' = "done"
    /\ UNCHANGED <<file_data, attrs_name, fps, sr, clipFps, clipSr, error, timestamps, labels,
                   clipOpen, seq_num, visual_num_samples, audio_num_samples,
                   visual_frames, audio_frames, i, visual_frame, failed, result, log>>

Next ==
    \/ ReadLabels
    \/ ReadLabelsEmpty
    \/ OpenClip
    \/ OpenClipFail
    \/ ComputeGrid
    \/ ComputeGridFail
    \/ ReadVisual
    \/ ReadVisualFail
    \/ Detect
    \/ DetectFail
    \/ TransposeAppend
    \/ ReadAudio
    \/ ReadAudioFail
    \/ Stack
    \/ StackFail
    \/ CreateDatasets
    \/ SaveAttrs

Spec == Init /\ [][Next]_vars

\* ------------------------------------------------------- claim vocabulary

Returned == pc \in {"returned", "attrs_name", "done"}
GridDone == pc \in {"loop", "detect", "transpose", "audio", "returned", "attrs_name", "done"}
    \/ (pc = "raised" /\ error \in {"MediaReadError", "ValueError"})
NumSegments == Len(file_data) - 1
\* the label interval of segment k (0-based), from the label table
SegStart(k) == file_data[k + 1][1]
SegEnd(k) == file_data[k + 2][1]
SegDuration(k) == SegEnd(k) - SegStart(k)
Last(s) == s[Len(s)]

\* C1: for every label table with N >= 2 rows the returned (and stored)
\* segment count is N - 1 and the label matrix has that many rows.
C1_SegmentCountIsRowsMinusOne ==
    /\ Returned =>
          /\ result.seq_num = Len(file_data) - 1
          /\ Len(result.labels) = result.seq_num
    /\ pc = "done" => writer.attrs["seq_num"] = Len(file_data) - 1

\* C2 as stated: with fewer than 2 label rows the run fails with the media
\* file never opened and no range read.
C2_FailsBeforeAnyMediaIO ==
    Len(file_data) < 2 =>
        /\ clipOpen = FALSE
        /\ log = <<>>
        /\ pc \in {"start", "open", "grid", "raised"}

\* C2 amended: with fewer than 2 label rows the run never enters the segment
\* loop, reads no range, returns and writes nothing, and can only end in a
\* raised error; with exactly 1 row the index error of the grid computation
\* is raised after the media file has been opened.
C2_FailsBeforeAnyRangeRead ==
    Len(file_data) < 2 =>
        /\ log = <<>>
        /\ result = NoResult
        /\ writer = EmptyWriter
        /\ pc \in {"start", "open", "grid", "raised"}
        /\ pc = "raised" => error \in {"IndexError", "MediaOpenError"}
        /\ (pc = "raised" /\ error = "IndexError" /\ Len(file_data) = 1) => clipOpen

C2_Witness ==
    Len(file_data) = 1 /\ pc = "raised" /\ error = "IndexError" /\ clipOpen

\* what the clip yields for segment k, and the leading part the windows keep
SourceFrames(k) == VisualRange(k, SegStart(k), SegEnd(k)).data
SourceSamples(k) == AudioRange(k, SegStart(k), SegEnd(k))
Leading(s, n) == SubSeq(s, 1, IF n < Len(s) THEN n ELSE Len(s))

\* the blocks of segment k in the run in which no detector call raises
NoFailureVisual(k) ==
    LET kept == Leading(SourceFrames(k), visual_num_samples)
    IN  [shape |-> <<Len(kept), Channels, resize[1], resize[2]>>, data |-> kept]
NoFailureAudio(k) ==
    LET kept == Leading(SourceSamples(k), audio_num_samples)
    IN  [j \in 1..Len(kept) |-> (kept[j][1] + kept[j][2]) \div 2]

FrameCount(b) == b.shape[1]

\* C3: a detector failure on a segment records the single all-zero frame of
\* shape (1, R, R, C) before the reorder for that segment, leaves the visual
\* and audio blocks of every other segment as in the run without failures,
\* and the loop goes on (the failing segment's audio is recorded too).
C3_FallbackIsolated ==
    /\ (pc = "transpose" /\ i \in failed) =>
          /\ visual_frame =
                [shape |-> <<1, resize[1], resize[1], Channels>>, data |-> <<0>>]
          /\ error = "none"
    /\ \A k \in 0..(Len(visual_frames) - 1) :
          IF k \in failed
          THEN visual_frames[k + 1] =
                  [shape |-> <<1, Channels, resize[1], resize[1]>>, data |-> <<0>>]
          ELSE visual_frames[k + 1] = NoFailureVisual(k)
    /\ \A k \in 0..(Len(audio_frames) - 1) : audio_frames[k + 1] = NoFailureAudio(k)
    /\ \A k \in failed : k < i => Len(audio_frames) > k

C3_Witness ==
    /\ failed = {1}
    /\ Len(visual_frames) = 3
    /\ Len(audio_frames) = 3
    /\ FrameCount(visual_frames[1]) > 1
    /\ FrameCount(visual_frames[3]) > 1

\* C4: a call that raised is the last call of the run unless it is a detector
\* call; a raising range read ends the run with the media error at that
\* segment, with nothing returned and nothing written, and no call for a
\* later segment is ever made.  A raising detector call leaves the run going.
C4_OnlyDetectorFailureCaught ==
    /\ \A k \in 1..Len(log) :
          (~log[k].ok /\ log[k].op # "detect") =>
              /\ k = Len(log)
              /\ pc = "raised"
              /\ error = "MediaReadError"
              /\ result = NoResult
              /\ writer = EmptyWriter
              /\ log[k].seg = i
              /\ \A m \in 1..Len(log) : log[m].seg <= log[k].seg
    /\ (pc = "raised" /\ error = "MediaReadError") =>
          /\ log # <<>>
          /\ ~Last(log).ok
          /\ Last(log).op \in {"visual", "audio"}
    /\ \A k \in 1..Len(log) :
          (~log[k].ok /\ log[k].op = "detect") =>
              /\ log[k].seg \in failed
              /\ (k = Len(log) => pc \in {"transpose", "audio"} /\ error = "none")

C4_Witness ==
    /\ pc = "raised"
    /\ error = "MediaReadError"
    /\ failed # {}
    /\ i = 2
    /\ Last(log).op = "audio"

\* a fallback block and a processed block of different frame counts
MixedFallback ==
    \E a \in failed, b \in (0..(Len(visual_frames) - 1)) \ failed :
        /\ a < Len(visual_frames)
        /\ FrameCount(visual_frames[a + 1]) # FrameCount(visual_frames[b + 1])

\* C5: when a fallback block's frame count differs from a processed block's,
\* the run that reaches the stacking ends in the shape error with nothing
\* returned or written; a returned or written visual tensor has one frame
\* count for all segments.
C5_MixedLengthsNeverStacked ==
    /\ (MixedFallback /\ i = Len(timestamps) - 1 /\ pc # "loop") =>
          /\ pc = "raised"
          /\ error = "ValueError"
          /\ result = NoResult
          /\ writer = EmptyWriter
    /\ Returned =>
          /\ ~MixedFallback
          /\ \A k \in 1..Len(visual_frames) :
                FrameCount(visual_frames[k]) = result.visual.shape[2]
    /\ pc = "done" => writer.datasets["visual"] = result.visual

C5_Witness ==
    pc = "raised" /\ error = "ValueError" /\ MixedFallback

AllBlocksFullWindow ==
    /\ \A k \in 1..Len(visual_frames) :
          visual_frames[k].shape =
              <<visual_num_samples, Channels, resize[1], resize[2]>>
    /\ result.visual.shape =
          <<NumSegments, visual_num_samples, Channels, resize[1], resize[2]>>

\* C6 as stated: if no detector call raises, every block of the returned
\* visual tensor has visual_window frames, whatever the clip yields.
C6_FullWindowWhateverTheSourceYields ==
    (Returned /\ failed = {}) => AllBlocksFullWindow

SourceCoversWindow ==
    \A k \in 0..(NumSegments - 1) : Len(SourceFrames(k)) >= visual_num_samples

\* C6 amended: if no detector call raises and the clip yields at least
\* visual_window frames for every segment, every block of the returned visual
\* tensor has shape (visual_window, C, R, R).
C6_FullWindowWhenSourceCovers ==
    (Returned /\ failed = {} /\ SourceCoversWindow) => AllBlocksFullWindow

C6_Witness ==
    /\ pc = "done"
    /\ failed = {}
    /\ SourceCoversWindow
    /\ NumSegments >= 2
    /\ \E k \in 0..(NumSegments - 1) : Len(SourceFrames(k)) > visual_num_samples

FirstInterval == file_data[2][1] - file_data[1][1]

\* rate * dt seconds rounded to the nearest integer
NearestInteger(rate, dt) == RoundHalfEven(rate * dt, TicksPerSecond)

\* rate * dt seconds rounded to Decimals places, then cut to its integer part
IntegerPartAfterAround(rate, dt) ==
    RoundHalfEven(rate * dt, TicksPerSecond \div Scale) \div Scale

\* the windows limit every segment's blocks, and are what is returned and stored
WindowsUsedEverywhere(vw, aw) ==
    /\ \A k \in 0..(Len(visual_frames) - 1) :
          k \notin failed =>
              FrameCount(visual_frames[k + 1]) = Min(vw, Len(SourceFrames(k)))
    /\ \A k \in 0..(Len(audio_frames) - 1) :
          Len(audio_frames[k + 1]) = Min(aw, Len(SourceSamples(k)))
    /\ Returned => result.num_samples = <<aw, vw>>
    /\ pc = "done" => writer.attrs["num_samples"] = <<aw, vw>>

\* C7 as stated: the windows are fps and sr times the first interval, rounded
\* to the nearest integer, and limit every segment.
C7_WindowsAreNearestInteger ==
    GridDone =>
        /\ visual_num_samples = NearestInteger(fps, FirstInterval)
        /\ audio_num_samples = NearestInteger(sr, FirstInterval)
        /\ WindowsUsedEverywhere(NearestInteger(fps, FirstInterval),
                                 NearestInteger(sr, FirstInterval))

\* C7 amended: the windows are fps and sr times the first interval, rounded to
\* 6 decimal places and then cut to the integer part; they are fixed before
\* the loop, limit every segment whatever its own duration, and are returned
\* and stored as [audio_window, visual_window]; 1 s at 30 and 16000 gives 30
\* and 16000.
C7_WindowsAreIntegerPart ==
    /\ GridDone =>
          /\ visual_num_samples = IntegerPartAfterAround(fps, FirstInterval)
          /\ audio_num_samples = IntegerPartAfterAround(sr, FirstInterval)
          /\ WindowsUsedEverywhere(IntegerPartAfterAround(fps, FirstInterval),
                                   IntegerPartAfterAround(sr, FirstInterval))
    /\ NumSamples(30, TicksPerSecond) = 30
    /\ NumSamples(16000, TicksPerSecond) = 16000

C7_Witness ==
    /\ pc = "done"
    /\ NumSegments >= 2
    /\ SegDuration(1) > FirstInterval
    /\ visual_num_samples # NearestInteger(fps, FirstInterval)
    /\ Len(SourceFrames(1)) > visual_num_samples

\* C8: the frames handed to the detector are the leading min(visual_window,
\* yielded) frames of the range; every audio block is the leading
\* min(audio_window, yielded) samples of the per-sample channel mean; no block
\* is longer than its window and a short read gives a short block.
C8_LeadingPartNeverPadded ==
    /\ pc = "detect" =>
          /\ visual_frame.data = Leading(SourceFrames(i), visual_num_samples)
          /\ FrameCount(visual_frame) = Min(visual_num_samples, Len(SourceFrames(i)))
          /\ FrameCount(visual_frame) <= visual_num_samples
    /\ \A k \in 0..(Len(audio_frames) - 1) :
          LET block == audio_frames[k + 1]
              src == SourceSamples(k)
          IN  /\ Len(block) = Min(audio_num_samples, Len(src))
              /\ Len(block) <= audio_num_samples
              /\ \A j \in 1..Len(block) : 2 * block[j] = src[j][1] + src[j][2]

C8_Witness ==
    /\ pc = "detect"
    /\ i = 1
    /\ Len(SourceFrames(1)) < visual_num_samples
    /\ FrameCount(visual_frame) = Len(SourceFrames(1))
    /\ Len(SourceSamples(0)) > audio_num_samples
    /\ Len(audio_frames[1]) = audio_num_samples

CanonicalOp(k) == <<"visual", "detect", "audio">>[((k - 1) % 3) + 1]

\* C9: the calls of a run are, in order, visual read, detector, audio read of
\* segment 0, then of segment 1, and so on, each on its own label interval;
\* the reads of one modality are monotonic and do not overlap; the stacking
\* happens only after all N-1 segments have been processed once.
C9_SegmentsInOrder ==
    /\ \A k \in 1..Len(log) :
          /\ log[k].op = CanonicalOp(k)
          /\ log[k].seg = (k - 1) \div 3
          /\ log[k].seg < NumSegments
          /\ log[k].start = SegStart(log[k].seg)
          /\ log[k].end = SegEnd(log[k].seg)
          /\ log[k].start < log[k].end
    /\ \A a, b \in 1..Len(log) :
          (a < b /\ log[a].op = log[b].op) => log[a].end <= log[b].start
    /\ (Returned \/ (pc = "raised" /\ error = "ValueError")) =>
          /\ Len(log) = 3 * NumSegments
          /\ Len(visual_frames) = NumSegments
          /\ Len(audio_frames) = NumSegments

C9_Witness ==
    pc = "done" /\ Len(log) = 9 /\ log[9].seg = 2 /\ log[9].op = "audio"

\* C10: nothing is written before _get_samples has returned; a run that
\* raises leaves the writer as it was; a finished run has written the three
\* datasets and the five attributes.
C10_WriterAllOrNothing ==
    /\ writer # EmptyWriter => (pc \in {"attrs_name", "done"} /\ result # NoResult)
    /\ pc = "raised" => writer = EmptyWriter
    /\ pc = "done" =>
          /\ DOMAIN writer.datasets = {"audio", "visual", "labels"}
          /\ writer.datasets["audio"] = result.audio
          /\ writer.datasets["visual"] = result.visual
          /\ writer.datasets["labels"] = result.labels
          /\ DOMAIN writer.attrs =
                {"data_file", "label_file", "seq_num", "num_samples", "label_names"}

C10_Witness ==
    /\ pc = "done"
    /\ Cardinality(DOMAIN writer.datasets) = 3
    /\ Cardinality(DOMAIN writer.attrs) = 5
    /\ writer.datasets["audio"].shape[1] = 3

====
